---------------------------- MODULE Spec2Model ----------------------------
(***************************************************************************)
(* Model of the mind.balance scorer (MindBalanceTool.execute) together     *)
(* with the configuration singleton it reads its defaults from and the     *)
(* MCP server that routes tools/call requests to it.                       *)
(*                                                                         *)
(* Numbers are decimal fixed point with three fractional digits (0.70 is   *)
(* 700, 3.0 is 3000, an angle is in milliradians); products and quotients  *)
(* round to nearest, as IEEE doubles do.  An optional value is a sequence  *)
(* of length 0 (undefined / null) or 1 (the value).                        *)
(***************************************************************************)
EXTENDS Integers, Sequences, FiniteSets, TLC

VARIABLES
    config,     \* secureConfigManager.config.mindBalance
    pc,         \* position of the current execute call
    frame,      \* its arguments and local constants
    result,     \* what the call returned or threw
    kept,       \* the outcome of an earlier call that its caller still holds
    initialized, \* MCPServer.initialized
    request,    \* the request handleRequest was last given
    response,   \* the response it resolved to
    manager,    \* secureConfigManager: isInitialized, auditLogs and the
                \* security and signature keys of its config
    transport   \* StdioTransport: its buffer, the processBuffer invocations
                \* under way and what was written to the output stream

vars ==
    <<config, pc, frame, result, kept, initialized, request, response,
      manager, transport>>

\* the state of the server, of its transport and of its client
serverVars == <<initialized, request, response, transport>>

\* what a call of the scorer leaves alone
otherVars == <<manager, serverVars>>

---------------------------------------------------------------------------
(* Optional values and the ?? operator                                     *)

None == <<>>

Some(v) == <<v>>

Val(o) == o[1]

\* a ?? b
Coalesce(a, b) == IF a # None THEN a ELSE b

---------------------------------------------------------------------------
(* Fixed-point arithmetic                                                  *)

SCALE == 1000

Abs(x) == IF x < 0 THEN -x ELSE x

Sign(x) == IF x > 0 THEN 1 ELSE IF x < 0 THEN -1 ELSE 0

Min(x, y) == IF x <= y THEN x ELSE y

Max(x, y) == IF x >= y THEN x ELSE y

\* n / d rounded to nearest, for d > 0
RDiv(n, d) ==
    LET q == Abs(n) \div d
        r == Abs(n) % d
    IN  Sign(n) * (IF 2 * r >= d THEN q + 1 ELSE q)

\* x * y on scaled operands
Mul(x, y) == RDiv(x * y, SCALE)

---------------------------------------------------------------------------
(* Math.cos, Math.tan, Math.exp on the angles and exponents of the model   *)

\* Math.PI / 2 in milliradians (1.5707963...)
PiHalf == 1571

ThetaSet == {0, 1047, 3142}

PhiSet == {-1571, -1400, 0, 785, 1571}

\* Math.cos(theta): cos 0, cos(pi/3), cos(pi)
MathCos(theta) ==
    CASE theta = 0    -> 1000
      [] theta = 1047 -> 500
      [] theta = 3142 -> -1000

\* Math.tan(phi); at the double nearest to pi/2 it is about 1.6e16, which the
\* model writes as the largest magnitude it uses
MathTan(phi) ==
    CASE phi = -1571 -> -2000000000
      [] phi = -1400 -> -5798
      [] phi = 0     -> 0
      [] phi = 785   -> 999
      [] phi = 1571  -> 2000000000

\* e^n for n in 0..7
ExpInt(n) ==
    CASE n = 0 -> 1000
      [] n = 1 -> 2718
      [] n = 2 -> 7389
      [] n = 3 -> 20086
      [] n = 4 -> 54598
      [] n = 5 -> 148413
      [] n = 6 -> 403429
      [] n = 7 -> 1096633

\* e^f for 0 <= f < 1, by its Taylor series
ExpFrac(f) ==
    LET t2 == RDiv(f * f, 2 * SCALE)
        t3 == RDiv(t2 * f, 3 * SCALE)
        t4 == RDiv(t3 * f, 4 * SCALE)
        t5 == RDiv(t4 * f, 5 * SCALE)
        t6 == RDiv(t5 * f, 6 * SCALE)
    IN  SCALE + f + t2 + t3 + t4 + t5 + t6

\* Math.exp(x).  From e^7 on the value is held at e^7: 1 / (1 + e^7) already
\* rounds to 0 at this resolution, as 1 / (1 + Math.exp(x)) does for large x.
MathExp(x) ==
    LET pos(y) == IF y >= 7 * SCALE THEN ExpInt(7)
                  ELSE RDiv(ExpInt(y \div SCALE) * ExpFrac(y % SCALE), SCALE)
    IN  IF x >= 0 THEN pos(x) ELSE RDiv(SCALE * SCALE, pos(-x))

---------------------------------------------------------------------------
(* MindBalanceTool's private helpers                                       *)

\* the sign dropped
clampMag_unsigned(x, m) == Min(Abs(x), m)

\* Math.sign(x) * Math.min(Math.abs(x), m)
clampMag(x, m) == Sign(x) * Min(Abs(x), m)

\* 1 / 1 + Math.exp(-z): the parentheses lost
logistic_precedence(z) == SCALE + MathExp(-z)

\* 1 / (1 + Math.exp(-z))
logistic(z) == RDiv(SCALE * SCALE, SCALE + MathExp(-z))

\* the stand-in for 1e-9: the smallest positive number of the model
Epsilon == 1

\* 1e-9 added to mu in place of the || guard
zBlend_addedEpsilon(a, b) ==
    RDiv((a - b) * SCALE, Abs(a) + Abs(b) + 2 * Epsilon)

\* the guard against zero put on the difference as well as on mu
zBlend_guardedDifference(a, b) ==
    LET s   == Abs(a) + Abs(b)
        mu2 == IF s # 0 THEN s ELSE 2 * Epsilon
        d   == IF a - b # 0 THEN a - b ELSE Epsilon
    IN  RDiv(d * SCALE, mu2)

\* the difference divided by mu, not by mu * 2
zBlend_overMean(a, b) ==
    LET s   == Abs(a) + Abs(b)
        mu2 == IF s # 0 THEN s ELSE 2 * Epsilon
    IN  RDiv((a - b) * 2 * SCALE, mu2)

\* mu = (|a| + |b|) / 2 || 1e-9; (a - b) / (mu * 2).  Halving and doubling a
\* double are exact, so mu * 2 is |a| + |b|, or 2e-9 when that is zero.
zBlend(a, b) ==
    LET s   == Abs(a) + Abs(b)
        mu2 == IF s # 0 THEN s ELSE 2 * Epsilon
    IN  RDiv((a - b) * SCALE, mu2)

---------------------------------------------------------------------------
(* The configuration singleton (AhrimagonSecureConfigManager)              *)
(*                                                                         *)
(* A stored configuration keeps, of AhrimagonConfig, the mindBalance       *)
(* section: an optional record of optional fields.  A configuration file   *)
(* is JSON, where a key is absent (None), null (Some(None)) or has a value *)
(* (Some(Some(v))).                                                        *)

Absent == None

Null == Some(None)

Value(v) == Some(Some(v))

\* {} read as a mindBalance section, and as a scoring section
EmptyMindBalance ==
    [abstainThreshold |-> None, tanClamp |-> None, normalize |-> None,
     scoring |-> None]

EmptyScoring ==
    [rules |-> None, abstentionScore |-> None, abstainThreshold |-> None]

DefaultThreshold == 700

DefaultTanClamp == 3000

\* DEFAULT_CONFIG.mindBalance
DEFAULT_CONFIG ==
    [mindBalance |-> Some(
        [abstainThreshold |-> Some(DefaultThreshold),
         tanClamp         |-> Some(DefaultTanClamp),
         normalize        |-> Some(TRUE),
         scoring          |-> Some([rules            |-> Some(<<"brier", "log">>),
                                    abstentionScore  |-> Some(0),
                                    abstainThreshold |-> None])])]

\* a JSON mindBalance object none of whose keys is present
NoKeys ==
    [abstainThreshold |-> Absent, tanClamp |-> Absent, normalize |-> Absent,
     scoring |-> Absent]

NoScoringKeys ==
    [rules |-> Absent, abstentionScore |-> Absent, abstainThreshold |-> Absent]

\* The configuration files initialize is given: one that does not exist, one
\* that is no JSON, and four documents.
FileMissing ==
    [security |-> Absent, signature |-> Absent,
     exists |-> FALSE, parses |-> FALSE, version |-> FALSE,
     mindBalance |-> Absent, production |-> Absent]

FileGarbled ==
    [security |-> Absent, signature |-> Absent,
     exists |-> TRUE, parses |-> FALSE, version |-> FALSE,
     mindBalance |-> Absent, production |-> Absent]

\* { version, mindBalance: { abstainThreshold: 0.9, tanClamp: 1.0, normalize:
\*   false, scoring: { rules: ["brier"], abstentionScore: 0.25 } } }
FileTuned ==
    [security |-> Absent, signature |-> Absent,
     exists |-> TRUE, parses |-> TRUE, version |-> TRUE,
     mindBalance |-> Value(
        [abstainThreshold |-> Value(900), tanClamp |-> Value(1000),
         normalize |-> Value(FALSE),
         scoring |-> Value([rules |-> Value(<<"brier">>),
                            abstentionScore |-> Value(250),
                            abstainThreshold |-> Absent])]),
     production |-> Absent]

\* { version, mindBalance: { abstainThreshold: 1.5 } }
FileOutOfRange ==
    [security |-> Absent, signature |-> Absent,
     exists |-> TRUE, parses |-> TRUE, version |-> TRUE,
     mindBalance |-> Value([NoKeys EXCEPT !.abstainThreshold = Value(1500)]),
     production |-> Absent]

\* { version, environments: { production: { mindBalance: { abstainThreshold:
\*   null, tanClamp: null, normalize: null, scoring: null } } } }
FileNulled ==
    [security |-> Absent, signature |-> Absent,
     exists |-> TRUE, parses |-> TRUE, version |-> TRUE,
     mindBalance |-> Absent,
     production |-> Value(
        [abstainThreshold |-> Null, tanClamp |-> Null, normalize |-> Null,
         scoring |-> Null])]

\* { version, mindBalance: { scoring: { rules: ["brier", "log"],
\*   abstainThreshold: 0.9 } } }
FileScoringThreshold ==
    [security |-> Absent, signature |-> Absent,
     exists |-> TRUE, parses |-> TRUE, version |-> TRUE,
     mindBalance |-> Value(
        [NoKeys EXCEPT !.scoring =
            Value([rules |-> Value(<<"brier", "log">>),
                   abstentionScore |-> Absent,
                   abstainThreshold |-> Value(900)])]),
     production |-> Absent]

ConfigFiles ==
    {FileMissing, FileGarbled, FileTuned, FileOutOfRange, FileNulled,
     FileScoringThreshold}

\* AHRIMAGON_CONFIG_SCHEMA on the keys of the model: version is required;
\* abstainThreshold is a number in [0, 1], tanClamp a number in [0.1, 100],
\* normalize a boolean; scoring requires a non-empty rules array and takes
\* further keys; environments.* is any object; security.encryption.algorithm
\* is one of two names.  The signatures of the model are 64 hex digits.
schemaValid(raw) ==
    /\ raw.version
    /\ raw.security # Absent =>
        LET algorithm == Val(Val(raw.security)).encryption IN
        algorithm # None =>
            Val(algorithm) \in {"AES-256-GCM", "ChaCha20-Poly1305"}
    /\ raw.mindBalance # Null
    /\ raw.mindBalance # Absent =>
        LET mb == Val(Val(raw.mindBalance)) IN
        /\ mb.abstainThreshold # Null
        /\ mb.abstainThreshold # Absent =>
              /\ Val(Val(mb.abstainThreshold)) >= 0
              /\ Val(Val(mb.abstainThreshold)) <= SCALE
        /\ mb.tanClamp # Null
        /\ mb.tanClamp # Absent =>
              /\ Val(Val(mb.tanClamp)) >= 100
              /\ Val(Val(mb.tanClamp)) <= 100 * SCALE
        /\ mb.normalize # Null
        /\ mb.scoring # Null
        /\ mb.scoring # Absent =>
              LET sc == Val(Val(mb.scoring)) IN
              /\ sc.rules # Absent
              /\ sc.rules # Null
              /\ Len(Val(Val(sc.rules))) >= 1
              /\ sc.abstentionScore # Absent /\ sc.abstentionScore # Null =>
                    /\ Val(Val(sc.abstentionScore)) >= 0
                    /\ Val(Val(sc.abstentionScore)) <= SCALE

\* deepMerge on one key: a key of the source, null included, replaces the
\* target's; an absent key leaves it
mergeKey(t, s) == IF s = Absent THEN t ELSE s

\* deepMerge(target, source) on two JSON mindBalance objects; the overrides of
\* the model carry scoring as null or not at all, so no nested merge arises
deepMergeJson(t, s) ==
    [abstainThreshold |-> mergeKey(t.abstainThreshold, s.abstainThreshold),
     tanClamp         |-> mergeKey(t.tanClamp, s.tanClamp),
     normalize        |-> mergeKey(t.normalize, s.normalize),
     scoring          |-> mergeKey(t.scoring, s.scoring)]

\* applyEnvironmentOverrides(config, 'production'), its mindBalance key
applyEnvironmentOverrides(raw) ==
    IF raw.production = Absent \/ raw.production = Null
    THEN raw.mindBalance
    ELSE Value(deepMergeJson(
            IF raw.mindBalance # Absent /\ raw.mindBalance # Null
            THEN Val(Val(raw.mindBalance)) ELSE NoKeys,
            Val(Val(raw.production))))

\* a stored optional value under a JSON key of the source
storeKey(t, s) == IF s = Absent THEN t ELSE Val(s)

\* deepMerge(DEFAULT_CONFIG.mindBalance.scoring, source.scoring)
deepMergeScoring(t, s) ==
    [rules            |-> storeKey(t.rules, s.rules),
     abstentionScore  |-> storeKey(t.abstentionScore, s.abstentionScore),
     abstainThreshold |-> storeKey(t.abstainThreshold, s.abstainThreshold)]

\* deepMerge(DEFAULT_CONFIG, finalConfig), its mindBalance key
deepMerge(t, mbJson) ==
    IF mbJson = Absent THEN t
    ELSE IF mbJson = Null THEN [mindBalance |-> None]
    ELSE
      LET tm == IF t.mindBalance # None THEN Val(t.mindBalance)
                ELSE EmptyMindBalance
          s  == Val(Val(mbJson))
      IN  [mindBalance |-> Some(
            [abstainThreshold |-> storeKey(tm.abstainThreshold, s.abstainThreshold),
             tanClamp         |-> storeKey(tm.tanClamp, s.tanClamp),
             normalize        |-> storeKey(tm.normalize, s.normalize),
             scoring          |->
                IF s.scoring = Absent THEN tm.scoring
                ELSE IF s.scoring = Null THEN None
                ELSE Some(deepMergeScoring(
                        IF tm.scoring # None THEN Val(tm.scoring)
                        ELSE EmptyScoring,
                        Val(Val(s.scoring))))])]

\* this.config.mindBalance || {}
getMindBalanceConfig(c) ==
    IF c.mindBalance # None THEN Val(c.mindBalance) ELSE EmptyMindBalance

---------------------------------------------------------------------------
(* MindBalanceTool.execute                                                 *)

\* tangent weights are multiples of 0.5 up to MaxTangent halves
MaxTangent == 1

CosineSet == {-1500, 0, 500, 1000}

TangentSet == {k * 500 : k \in -MaxTangent..MaxTangent}

ModeSet == {"angel", "demon", "blend", "probabilistic"}

TanClampSet == {None, Some(-1000), Some(0), Some(500)}

NormalizeSet == {None, Some(TRUE), Some(FALSE)}

ThresholdSet == {None, Some(-100), Some(0), Some(600), Some(1500)}

\* the scoring argument: absent, an object with an optional threshold only,
\* { rules: [] } or { rules: ['log'], abstentionScore: 0.5 }
ScoringSet ==
    {None} \cup
    {Some([rules |-> None, abstentionScore |-> None, abstainThreshold |-> t]) :
        t \in ThresholdSet} \cup
    {Some([rules |-> Some(<<>>), abstentionScore |-> None,
           abstainThreshold |-> None]),
     Some([rules |-> Some(<<"log">>), abstentionScore |-> Some(500),
           abstainThreshold |-> None])}

ArgsSet ==
    [theta : ThetaSet, phi : PhiSet, cosine : CosineSet, tangent : TangentSet,
     mode : ModeSet, tanClamp : TanClampSet, normalize : NormalizeSet,
     scoring : ScoringSet]

\* obj?.field on an optional record
Opt(o, field) == IF o = None THEN None ELSE Val(o)[field]

LegacyThreshold == 1010

Half == 500

\* the messages validateInputs throws
CosineError == "Cosine weight must be in range [-1, 1]"

PhiError == "Phi must be in range (-pi/2, pi/2) to avoid tan() singularities"

ClampError == "tanClamp must be positive"

\* the cosine compared without Math.abs
validateInputs_signed(args) ==
    IF args.cosine > SCALE THEN Some(CosineError)
    ELSE IF Abs(args.phi) >= PiHalf THEN Some(PhiError)
    ELSE IF /\ args.tanClamp # None
            /\ Val(args.tanClamp) # 0
            /\ Val(args.tanClamp) <= 0 THEN Some(ClampError)
    ELSE None

\* the boundary angles let through
validateInputs_open(args) ==
    IF Abs(args.cosine) > SCALE THEN Some(CosineError)
    ELSE IF Abs(args.phi) > PiHalf THEN Some(PhiError)
    ELSE IF /\ args.tanClamp # None
            /\ Val(args.tanClamp) # 0
            /\ Val(args.tanClamp) <= 0 THEN Some(ClampError)
    ELSE None

\* the phase checked before the weight
validateInputs_phiFirst(args) ==
    IF Abs(args.phi) >= PiHalf THEN Some(PhiError)
    ELSE IF Abs(args.cosine) > SCALE THEN Some(CosineError)
    ELSE IF /\ args.tanClamp # None
            /\ Val(args.tanClamp) # 0
            /\ Val(args.tanClamp) <= 0 THEN Some(ClampError)
    ELSE None

\* validateInputs(args): the message thrown, or None
validateInputs(args) ==
    IF Abs(args.cosine) > SCALE THEN Some(CosineError)
    ELSE IF Abs(args.phi) >= PiHalf THEN Some(PhiError)
    ELSE IF /\ args.tanClamp # None
            /\ Val(args.tanClamp) # 0
            /\ Val(args.tanClamp) <= 0 THEN Some(ClampError)
    ELSE None

\* what no local holds before the computation has assigned it
NoLocals ==
    [cosVal |-> None, tanVal |-> None, raw |-> None, pPositive |-> None,
     pNegative |-> None, abstainThreshold |-> None, confidence |-> None,
     decision |-> None, scores |-> None]

\* the signals computed while the arguments are taken apart, before the
\* validation
resolveDefaults_eager(args, c) ==
    LET mindBalanceConfig == getMindBalanceConfig(c)
        finalTanClamp == Val(Coalesce(Coalesce(args.tanClamp,
                                mindBalanceConfig.tanClamp),
                                Some(DefaultTanClamp)))
    IN
    [args              |-> args,
     mindBalanceConfig |-> mindBalanceConfig,
     finalTanClamp     |-> finalTanClamp,
     finalNormalize    |-> Val(Coalesce(Coalesce(args.normalize,
                                mindBalanceConfig.normalize), Some(TRUE))),
     finalScoring      |-> Coalesce(args.scoring, mindBalanceConfig.scoring),
     locals            |->
        [NoLocals EXCEPT
            !.cosVal = Some(Mul(MathCos(args.theta), args.cosine)),
            !.tanVal = Some(Mul(clampMag(MathTan(args.phi), finalTanClamp),
                                args.tangent))]]

\* || in place of ??: a caller's normalize = false counts as absent
resolveDefaults_falsy(args, c) ==
    LET mindBalanceConfig == getMindBalanceConfig(c)
        truthy(o) == IF o = Some(FALSE) THEN None ELSE o
    IN
    [args              |-> args,
     mindBalanceConfig |-> mindBalanceConfig,
     finalTanClamp     |-> Val(Coalesce(Coalesce(args.tanClamp,
                                mindBalanceConfig.tanClamp),
                                Some(DefaultTanClamp))),
     finalNormalize    |-> Val(Coalesce(Coalesce(truthy(args.normalize),
                                truthy(mindBalanceConfig.normalize)),
                                Some(TRUE))),
     finalScoring      |-> Coalesce(args.scoring, mindBalanceConfig.scoring),
     locals            |-> NoLocals]

\* lines 232-249: the arguments and the defaults resolved from the
\* configuration
resolveDefaults(args, c) ==
    LET mindBalanceConfig == getMindBalanceConfig(c) IN
    [args              |-> args,
     mindBalanceConfig |-> mindBalanceConfig,
     finalTanClamp     |-> Val(Coalesce(Coalesce(args.tanClamp,
                                mindBalanceConfig.tanClamp),
                                Some(DefaultTanClamp))),
     finalNormalize    |-> Val(Coalesce(Coalesce(args.normalize,
                                mindBalanceConfig.normalize), Some(TRUE))),
     finalScoring      |-> Coalesce(args.scoring, mindBalanceConfig.scoring),
     locals            |-> NoLocals]

\* || in place of ??: a threshold of 0 counts as absent
effectiveThreshold_falsy(f) ==
    LET defaultT == Coalesce(f.mindBalanceConfig.abstainThreshold,
                             Some(DefaultThreshold))
        own      == Opt(f.finalScoring, "abstainThreshold")
    IN  Val(Coalesce(IF own = Some(0) THEN None ELSE own,
                     IF f.args.mode = "probabilistic" THEN defaultT
                     ELSE Some(LegacyThreshold)))

\* the configuration default used in every mode
effectiveThreshold_uniform(f) ==
    LET defaultT == Coalesce(f.mindBalanceConfig.abstainThreshold,
                             Some(DefaultThreshold))
    IN  Val(Coalesce(Opt(f.finalScoring, "abstainThreshold"), defaultT))

\* lines 266-267: the threshold the confidence is compared with
effectiveThreshold(f) ==
    LET defaultT == Coalesce(f.mindBalanceConfig.abstainThreshold,
                             Some(DefaultThreshold))
    IN  Val(Coalesce(Opt(f.finalScoring, "abstainThreshold"),
                     IF f.args.mode = "probabilistic" THEN defaultT
                     ELSE Some(LegacyThreshold)))

\* the comparison with the threshold turned round
decide_inverted(confidence, pPositive, abstainThreshold) ==
    IF confidence > abstainThreshold THEN "abstain"
    ELSE IF pPositive >= Half THEN "positive" ELSE "negative"

\* an even split counted as negative
decide_strict(confidence, pPositive, abstainThreshold) ==
    IF confidence < abstainThreshold THEN "abstain"
    ELSE IF pPositive > Half THEN "positive" ELSE "negative"

\* lines 268-272
decide(confidence, pPositive, abstainThreshold) ==
    IF confidence < abstainThreshold THEN "abstain"
    ELSE IF pPositive >= Half THEN "positive" ELSE "negative"

\* want.includes(rule)
Includes(seq, x) == \E i \in 1..Len(seq) : seq[i] = x

\* the abstention score recorded under brier only
computeScores_brierOnly(f, abstain) ==
    LET want  == Val(Coalesce(Opt(f.finalScoring, "rules"),
                              Some(<<"brier", "log">>)))
        score == IF abstain
                 THEN Val(Coalesce(Opt(f.finalScoring, "abstentionScore"),
                                   Some(0)))
                 ELSE 0
    IN  [brier |-> IF Includes(want, "brier") THEN Some(score) ELSE None,
         log   |-> IF Includes(want, "log") THEN Some(0) ELSE None]

\* an empty rule list taken for an absent one
computeScores_nonempty(f, abstain) ==
    LET rules == Opt(f.finalScoring, "rules")
        want  == IF rules = None \/ Val(rules) = <<>>
                 THEN <<"brier", "log">> ELSE Val(rules)
        score == IF abstain
                 THEN Val(Coalesce(Opt(f.finalScoring, "abstentionScore"),
                                   Some(0)))
                 ELSE 0
    IN  [brier |-> IF Includes(want, "brier") THEN Some(score) ELSE None,
         log   |-> IF Includes(want, "log") THEN Some(score) ELSE None]

\* lines 275-282: the scores object, a key being None when it is not set
computeScores(f, abstain) ==
    LET want  == Val(Coalesce(Opt(f.finalScoring, "rules"),
                              Some(<<"brier", "log">>)))
        score == IF abstain
                 THEN Val(Coalesce(Opt(f.finalScoring, "abstentionScore"),
                                   Some(0)))
                 ELSE 0
    IN  [brier |-> IF Includes(want, "brier") THEN Some(score) ELSE None,
         log   |-> IF Includes(want, "log") THEN Some(score) ELSE None]

\* lines 254-282: the locals of the computation
compute(f) ==
    LET a         == f.args
        cosVal    == Mul(MathCos(a.theta), a.cosine)
        tanVal    == Mul(clampMag(MathTan(a.phi), f.finalTanClamp), a.tangent)
        raw       == IF f.finalNormalize THEN zBlend(cosVal, tanVal)
                     ELSE cosVal - tanVal
        pPositive == logistic(raw)
        pNegative == SCALE - pPositive
        threshold == effectiveThreshold(f)
        confidence == Max(pPositive, pNegative)
        decision  == decide(confidence, pPositive, threshold)
    IN  [cosVal |-> Some(cosVal), tanVal |-> Some(tanVal), raw |-> Some(raw),
         pPositive |-> Some(pPositive), pNegative |-> Some(pNegative),
         abstainThreshold |-> Some(threshold),
         confidence |-> Some(confidence), decision |-> Some(decision),
         scores |-> Some(computeScores(f, decision = "abstain"))]

\* the cutoffs taken inclusively
bucket_inclusive(signal) ==
    IF Abs(signal) >= 700 THEN "strong"
    ELSE IF Abs(signal) >= 400 THEN "moderate"
    ELSE IF Abs(signal) >= 100 THEN "mild"
    ELSE "neutral"

\* the bucket of a signal's magnitude, lines 394-416
bucket(signal) ==
    IF Abs(signal) > 700 THEN "strong"
    ELSE IF Abs(signal) > 400 THEN "moderate"
    ELSE IF Abs(signal) > 100 THEN "mild"
    ELSE "neutral"

\* the direction named for a signal, lines 390-391
direction(signal) == IF signal > 0 THEN "positive" ELSE "negative"

\* lines 420-447: the sentence on the mode.  blendedScore is kept doubled,
\* so that the mean of two three-digit signals stays a whole number.
modeAnalysis(f, l) ==
    LET mode     == f.args.mode
        doubled  == IF mode = "angel" THEN 2 * Val(l.cosVal)
                    ELSE IF mode = "demon" THEN 2 * Val(l.tanVal)
                    ELSE Val(l.cosVal) + Val(l.tanVal)
    IN  IF mode = "probabilistic"
        THEN [mode |-> mode,
              verdict |-> IF Val(l.decision) = "abstain"
                          THEN "Abstaining due to low confidence"
                          ELSE "Decision based on probability threshold",
              shown |-> <<Val(l.pPositive), Val(l.pNegative),
                          Val(l.confidence), Val(l.abstainThreshold)>>]
        ELSE [mode |-> mode,
              verdict |->
                 IF mode = "angel"
                 THEN (IF doubled > 0 THEN "Proceed with ethical grounding"
                       ELSE "Hold for more stable conditions")
                 ELSE IF mode = "demon"
                 THEN (IF doubled > 0 THEN "Act on immediate pressure"
                       ELSE "Wait despite urgency")
                 ELSE IF Abs(doubled) > 800
                 THEN (IF doubled > 0 THEN "Proceed with balanced guidance"
                       ELSE "Hold with balanced caution")
                 ELSE "Consider further",
              shown |-> IF mode = "blend" THEN <<RDiv(doubled, 2)>> ELSE <<>>]

\* generateRationale, lines 369-462: the sentences of the text, each as the
\* wording chosen and the numbers printed in it (toFixed(3) prints a number
\* of the model as it is, toFixed(2) rounds an angle to hundredths)
generateRationale(f, l) ==
    [angel     |-> [bucket |-> bucket(Val(l.cosVal)),
                    direction |-> direction(Val(l.cosVal)),
                    shown |-> Val(l.cosVal)],
     demon     |-> [bucket |-> bucket(Val(l.tanVal)),
                    direction |-> direction(Val(l.tanVal)),
                    shown |-> Val(l.tanVal)],
     analysis  |-> modeAnalysis(f, l),
     technical |-> [theta |-> f.args.theta, angel |-> Val(l.cosVal),
                    phi |-> f.args.phi, tanClamp |-> f.finalTanClamp,
                    demon |-> Val(l.tanVal), normalize |-> f.finalNormalize]]

\* lines 302-326: the advice returned
advice(f, l) ==
    [kind        |-> "advice",
     angelSignal |-> Val(l.cosVal),
     demonSignal |-> Val(l.tanVal),
     mode        |-> f.args.mode,
     pPositive   |-> Val(l.pPositive),
     pNegative   |-> Val(l.pNegative),
     decision    |-> Val(l.decision),
     confidence  |-> Val(l.confidence),
     rationale   |-> generateRationale(f, l),
     scores      |-> IF Val(l.scores).brier # None \/ Val(l.scores).log # None
                     THEN l.scores ELSE None,
     metadata    |-> [theta |-> f.args.theta, phi |-> f.args.phi,
                      cosine |-> f.args.cosine, tangent |-> f.args.tangent,
                      tanClamp |-> f.finalTanClamp,
                      normalized |-> f.finalNormalize]]

\* the rejection of the promise execute returns
thrown(message) == [kind |-> "error", message |-> message]

\* execute(args) as a function of its arguments and the stored configuration
execute(args, c) ==
    LET f   == resolveDefaults(args, c)
        err == validateInputs(args)
    IN  IF err # None THEN thrown(Val(err)) ELSE advice(f, compute(f))

---------------------------------------------------------------------------
(* The earlier variant of the tool: unit-vector normalisation              *)

\* Math.sqrt of a whole number, rounded down; the argument is a sum of two
\* squares of scaled signals, so the root is a scaled magnitude
MathSqrt(n) == CHOOSE r \in 0 .. n : r * r <= n /\ (r + 1) * (r + 1) > n

\* the signals after the rescaling by sqrt(angel^2 + demon^2); left as they
\* are when normalize is false or the magnitude is 0
legacyNormalized(angelSignal, demonSignal, normalize) ==
    LET magnitude == MathSqrt(angelSignal * angelSignal
                              + demonSignal * demonSignal)
    IN  IF normalize /\ magnitude > 0
        THEN <<RDiv(angelSignal * SCALE, magnitude),
               RDiv(demonSignal * SCALE, magnitude)>>
        ELSE <<angelSignal, demonSignal>>

\* blendedScore of the blend mode: the mean of the two normalised signals
legacyBlendedScore(angelSignal, demonSignal, normalize) ==
    LET n == legacyNormalized(angelSignal, demonSignal, normalize)
    IN  RDiv(n[1] + n[2], 2)

---------------------------------------------------------------------------
(* The state machine                                                       *)

NoFrame == <<>>

\* the transport before any input
NoInput ==
    [buffer |-> <<>>, received |-> 0, tasks |-> <<>>, output |-> <<>>,
     chunks |-> 0]

Init ==
    /\ config = DEFAULT_CONFIG
    /\ pc = "idle"
    /\ frame = NoFrame
    /\ result = None
    /\ kept = None
    /\ initialized = FALSE
    /\ request = None
    /\ response = None
    /\ manager = [isInitialized |-> FALSE, auditLogs |-> <<>>,
                  security |-> None, signature |-> None]
    /\ transport = NoInput

\* how many entries of the audit log the model keeps (the code: 1000)
MaxAuditLogs == 2

\* logAuditEvent, lines 348-355: an entry, here its success flag, is pushed
\* and the last MaxAuditLogs entries are kept
logAuditEvent(auditLogs, success) ==
    LET pushed == Append(auditLogs, success) IN
    IF Len(pushed) > MaxAuditLogs
    THEN SubSeq(pushed, Len(pushed) - MaxAuditLogs + 1, Len(pushed))
    ELSE pushed

\* deepMerge(DEFAULT_CONFIG, finalConfig) on the keys security and
\* signature, which DEFAULT_CONFIG does not have: the security object is
\* copied key by key, the signature taken as it is
storedKey(json) == IF json = Absent THEN None ELSE Some(Val(Val(json)))

\* the assignment of this.config made before the file is validated
InitializeWith_mergeFirst(file, auditLogging) ==
    /\ pc = "idle"
    /\ LET valid == file.exists /\ file.parses /\ schemaValid(file) IN
       /\ IF file.exists /\ file.parses
          THEN /\ config' = deepMerge(DEFAULT_CONFIG,
                                      applyEnvironmentOverrides(file))
               /\ manager' =
                    [isInitialized |-> valid \/ manager.isInitialized,
                     auditLogs |-> IF auditLogging
                                   THEN logAuditEvent(manager.auditLogs, valid)
                                   ELSE manager.auditLogs,
                     security |-> storedKey(file.security),
                     signature |-> storedKey(file.signature)]
          ELSE /\ config' = config
               /\ manager' =
                    [manager EXCEPT !.auditLogs =
                        IF auditLogging THEN logAuditEvent(@, FALSE) ELSE @]
    /\ UNCHANGED <<pc, frame, result>>

\* initialize(options), lines 51-133, with the file options.configPath names
\* and options.auditLogging; the caller's turn runs to completion, so it
\* never falls inside an execute call
InitializeWith(file, auditLogging) ==
    /\ pc = "idle"
    /\ IF file.exists /\ file.parses /\ schemaValid(file)
       THEN /\ config' = deepMerge(DEFAULT_CONFIG,
                                   applyEnvironmentOverrides(file))
            /\ manager' =
                 [isInitialized |-> TRUE,
                  auditLogs |-> IF auditLogging
                                THEN logAuditEvent(manager.auditLogs, TRUE)
                                ELSE manager.auditLogs,
                  security |-> storedKey(file.security),
                  signature |-> storedKey(file.signature)]
       ELSE /\ config' = config
            /\ manager' =
                 [manager EXCEPT !.auditLogs =
                     IF auditLogging THEN logAuditEvent(@, FALSE) ELSE @]
    /\ UNCHANGED <<pc, frame, result>>

\* initialize({ configPath, auditLogging: false })
Initialize(file) == InitializeWith(file, FALSE)

\* execute(args), lines 231-249
Execute(args) ==
    /\ pc = "idle"
    /\ frame' = resolveDefaults(args, config)
    /\ result' = None
    /\ pc' = "validate"
    /\ UNCHANGED config

\* this.validateInputs(args), line 252
ValidateInputs ==
    /\ pc = "validate"
    /\ LET err == validateInputs(frame.args) IN
       IF err # None
       THEN /\ result' = Some(thrown(Val(err)))
            /\ pc' = "done"
       ELSE /\ result' = result
            /\ pc' = "compute"
    /\ UNCHANGED <<config, frame>>

\* the resolved clamp written into the configuration object that
\* getMindBalanceConfig hands out
Compute_writesBack ==
    /\ pc = "compute"
    /\ LET l == compute(frame) IN
       /\ frame' = [frame EXCEPT !.locals = l]
       /\ result' = Some(advice(frame, l))
    /\ pc' = "done"
    /\ config' = [mindBalance |-> Some(
            [getMindBalanceConfig(config) EXCEPT
                !.tanClamp = Some(frame.finalTanClamp)])]

\* lines 254-326
Compute ==
    /\ pc = "compute"
    /\ LET l == compute(frame) IN
       /\ frame' = [frame EXCEPT !.locals = l]
       /\ result' = Some(advice(frame, l))
    /\ pc' = "done"
    /\ UNCHANGED config

\* the caller takes the settled promise; the call's frame is gone
Return ==
    /\ pc = "done"
    /\ pc' = "idle"
    /\ frame' = NoFrame
    /\ result' = None
    /\ UNCHANGED config

\* the scorer called directly, as its tests do
Next ==
    \/ /\ pc = "idle" /\ \E file \in ConfigFiles : Initialize(file)
       /\ UNCHANGED <<kept, serverVars>>
    \/ /\ pc = "idle" /\ \E args \in ArgsSet : Execute(args)
       /\ UNCHANGED <<kept, otherVars>>
    \/ ValidateInputs /\ UNCHANGED <<kept, otherVars>>
    \/ Compute /\ UNCHANGED <<kept, otherVars>>
    \/ Return /\ UNCHANGED <<kept, otherVars>>

Spec == Init /\ [][Next]_vars

---------------------------------------------------------------------------
(* A caller that compares calls                                            *)

\* how many later calls a caller counts
MaxLater == 2

\* the arguments of the calls it makes
FewArgs ==
    [theta : {0}, phi : {-1400, 1571}, cosine : {-1500, 500},
     tangent : {500}, mode : {"probabilistic", "blend"},
     tanClamp : {None, Some(500)}, normalize : {None},
     scoring : {None, Some([rules |-> None, abstentionScore |-> None,
                            abstainThreshold |-> Some(600)])}]

\* const first = await tool.execute(args): the caller holds on to the
\* arguments, the defaults in force and the settled outcome of one call
Remember ==
    /\ pc = "done"
    /\ kept = None
    /\ kept' = Some([args |-> frame.args,
                     defaults |-> getMindBalanceConfig(config),
                     outcome |-> Val(result), later |-> 0])
    /\ UNCHANGED <<config, pc, frame, result, otherVars>>

\* a further call is made after the one held
CountLater ==
    kept' = IF kept = None THEN kept
            ELSE Some([Val(kept) EXCEPT
                        !.later = Min(Val(kept).later + 1, MaxLater)])

NextHistory ==
    \/ /\ pc = "idle" /\ \E file \in ConfigFiles : Initialize(file)
       /\ UNCHANGED <<kept, serverVars>>
    \/ /\ pc = "idle" /\ \E args \in FewArgs : Execute(args)
       /\ CountLater
       /\ UNCHANGED otherVars
    \/ ValidateInputs /\ UNCHANGED <<kept, otherVars>>
    \/ Compute /\ UNCHANGED <<kept, otherVars>>
    \/ Return /\ UNCHANGED <<kept, otherVars>>
    \/ Remember

SpecHistory == Init /\ [][NextHistory]_vars

---------------------------------------------------------------------------
(* Calls whose signals lie on and beside the cutoffs of the rationale      *)

\* with theta = 0 or pi the angel signal is the cosine weight or its
\* negative; with phi = -1.4 and tanClamp 1.0 the demon signal is the
\* negative of the tangent weight.  A threshold of 0.5 lets every call
\* decide.
CutoffArgs ==
    [theta : {0, 3142}, phi : {-1400, 785},
     cosine : {0, 100, 101, 400, 401, 700, 701, 1000},
     tangent : {-701, -700, -401, -400, -101, -100, 0, 100, 400, 700},
     mode : ModeSet, tanClamp : {Some(1000)},
     normalize : {None, Some(FALSE)},
     scoring : {None, Some([rules |-> None, abstentionScore |-> None,
                            abstainThreshold |-> Some(Half)])}]

NextRationale ==
    \/ /\ pc = "idle" /\ \E file \in ConfigFiles : Initialize(file)
       /\ UNCHANGED <<kept, serverVars>>
    \/ /\ pc = "idle" /\ \E args \in CutoffArgs : Execute(args)
       /\ UNCHANGED <<kept, otherVars>>
    \/ ValidateInputs /\ UNCHANGED <<kept, otherVars>>
    \/ Compute /\ UNCHANGED <<kept, otherVars>>
    \/ Return /\ UNCHANGED <<kept, otherVars>>

SpecRationale == Init /\ [][NextRationale]_vars

---------------------------------------------------------------------------
(* The configuration manager on its own: initialize and exportConfig       *)

\* { version, signature, security: { encryption: { algorithm: "AES-256-GCM" },
\*   audit: { logLevel: "info" } } }
FileSecured ==
    [security |-> Value([encryption |-> Some("AES-256-GCM"),
                         audit |-> Some("info")]),
     signature |-> Value("9F86D081"),
     exists |-> TRUE, parses |-> TRUE, version |-> TRUE,
     mindBalance |-> Absent, production |-> Absent]

\* { version, security: { audit: { logLevel: "warn" } },
\*   mindBalance: { abstainThreshold: 0.6 } }
FileAudited ==
    [security |-> Value([encryption |-> None, audit |-> Some("warn")]),
     signature |-> Absent,
     exists |-> TRUE, parses |-> TRUE, version |-> TRUE,
     mindBalance |-> Value([NoKeys EXCEPT !.abstainThreshold = Value(600)]),
     production |-> Absent]

\* { version, security: { encryption: { algorithm: "ROT13" } } }
FileWeakCipher ==
    [security |-> Value([encryption |-> Some("ROT13"), audit |-> None]),
     signature |-> Absent,
     exists |-> TRUE, parses |-> TRUE, version |-> TRUE,
     mindBalance |-> Absent, production |-> Absent]

ManagerFiles == ConfigFiles \cup {FileSecured, FileAudited, FileWeakCipher}

\* exportConfig(includeSensitive), lines 264-274.  exported is a copy of
\* this.config one level deep: its security is the object the stored
\* configuration holds, so the delete of exported.security.encryption takes
\* the key out of the stored configuration; the delete of
\* exported.signature stays in the copy.
ExportConfig(includeSensitive) ==
    /\ pc = "idle"
    /\ manager' =
         IF includeSensitive \/ manager.security = None THEN manager
         ELSE [manager EXCEPT
                 !.security = Some([Val(@) EXCEPT !.encryption = None])]
    /\ result' = Some(
          [kind |-> "export", includeSensitive |-> includeSensitive,
           config |->
             [mindBalance |-> config.mindBalance,
              security |-> manager'.security,
              signature |-> IF includeSensitive THEN manager.signature
                            ELSE None]])
    /\ UNCHANGED <<config, pc, frame, kept, serverVars>>

NextManager ==
    \/ /\ pc = "idle"
       /\ \E file \in ManagerFiles, auditLogging \in BOOLEAN :
              InitializeWith(file, auditLogging)
       /\ UNCHANGED <<kept, serverVars>>
    \/ pc = "idle" /\ \E includeSensitive \in BOOLEAN :
                          ExportConfig(includeSensitive)
    \/ /\ pc = "idle" /\ \E args \in FewArgs : Execute(args)
       /\ UNCHANGED <<kept, otherVars>>
    \/ ValidateInputs /\ UNCHANGED <<kept, otherVars>>
    \/ Compute /\ UNCHANGED <<kept, otherVars>>
    \/ Return /\ UNCHANGED <<kept, otherVars>>

SpecManager == Init /\ [][NextManager]_vars

---------------------------------------------------------------------------
(* MCPServer                                                               *)

METHOD_NOT_FOUND == -32601

INTERNAL_ERROR == -32603

TOOL_NOT_FOUND == -32001

TOOL_EXECUTION_ERROR == -32002

\* the names registerDefaultTools registers
tools ==
    {"mind.balance", "argument.steelman", "argument.strawman",
     "argument.pipeline.strawman-to-steelman"}

RequestIds == {1, 2}

\* params of a tools/call request: absent, or a name, registered or not,
\* with arguments that are null or an object
ParamsSet ==
    {None} \cup
    {Some([name |-> n, arguments |-> a]) :
        n \in tools \cup {"no.such.tool"},
        a \in {None} \cup {Some(args) : args \in FewArgs}}

\* the message of the TypeError a destructuring of null or undefined throws
DestructureError == "Cannot destructure property of null or undefined"

\* the message of the TypeError a method call on a missing field throws
MissingFieldError == "Cannot read properties of undefined"

\* MCPTool.validateArgs: the arguments handed on as they are
validateArgs(arguments) == arguments

\* the ways tool.execute(arguments) can settle.  Every tool begins by
\* destructuring its arguments.  An argumentation tool given an object
\* returns its result or, when a field it uses is missing, throws; the
\* objects of the model do not say which, so both are possible.
toolExecute(name, arguments, c) ==
    IF arguments = None THEN {thrown(DestructureError)}
    ELSE IF name = "mind.balance" THEN {execute(Val(arguments), c)}
    ELSE {thrown(MissingFieldError), [kind |-> "result", tool |-> name]}

\* a handler's promise resolved with a response / rejected
resolved(body) == [settled |-> "resolved", body |-> body]

rejected(message) == [settled |-> "rejected", message |-> message]

\* createErrorResponse, lines 152-162
createErrorResponse(id, code, message) ==
    [jsonrpc |-> "2.0", id |-> id, result |-> None,
     error |-> Some([code |-> code, message |-> message])]

\* { jsonrpc: '2.0', id, result }
successResponse(id, content) ==
    [jsonrpc |-> "2.0", id |-> id, result |-> Some(content), error |-> None]

\* the tool's error left to the catch of handleRequest
toolsCallResponse_outerCatch(id, outcome) ==
    IF outcome.kind = "error"
    THEN createErrorResponse(id, INTERNAL_ERROR, outcome.message)
    ELSE successResponse(id, [contentType |-> "application/json",
                              content |-> outcome])

\* lines 125-146: the response to a call of a registered tool that settled
\* with outcome
toolsCallResponse(id, outcome) ==
    IF outcome.kind = "error"
    THEN createErrorResponse(id, TOOL_EXECUTION_ERROR, outcome.message)
    ELSE successResponse(id, [contentType |-> "application/json",
                              content |-> outcome])

\* initialize answered with success every time
HandleInitialize_again(id) ==
    /\ request' = Some([id |-> id, method |-> "initialize", params |-> None])
    /\ initialized' = TRUE
    /\ response' = Some(resolved(successResponse(
            id, [protocolVersion |-> "2024-11-05"])))
    /\ UNCHANGED <<config, pc, frame, result, kept, manager>>

\* handleInitialize, lines 72-95, under the try of handleRequest
HandleInitialize(id) ==
    /\ request' = Some([id |-> id, method |-> "initialize", params |-> None])
    /\ IF initialized
       THEN /\ response' = Some(resolved(createErrorResponse(
                    id, INTERNAL_ERROR, "Server already initialized")))
            /\ UNCHANGED initialized
       ELSE /\ initialized' = TRUE
            /\ response' = Some(resolved(successResponse(
                    id, [protocolVersion |-> "2024-11-05"])))
    /\ UNCHANGED <<config, pc, frame, result, kept, manager>>

\* handleToolsList, lines 100-108
HandleToolsList(id) ==
    /\ request' = Some([id |-> id, method |-> "tools/list", params |-> None])
    /\ response' = Some(resolved(successResponse(id, [tools |-> tools])))
    /\ UNCHANGED <<config, pc, frame, result, kept, initialized, manager>>

\* handleToolsCall, lines 113-147.  Destructuring absent params throws
\* before the try, inside an async function whose promise handleRequest
\* returns without awaiting it: the rejection passes its catch.
HandleToolsCall(id, params) ==
    /\ request' = Some([id |-> id, method |-> "tools/call", params |-> params])
    /\ IF params = None
       THEN /\ response' = Some(rejected(DestructureError))
            /\ result' = None
       ELSE IF Val(params).name \notin tools
       THEN /\ response' = Some(resolved(createErrorResponse(
                    id, TOOL_NOT_FOUND, "Tool not found")))
            /\ result' = None
       ELSE \E outcome \in toolExecute(Val(params).name,
                                       validateArgs(Val(params).arguments),
                                       config) :
            /\ result' = Some(outcome)
            /\ response' = Some(resolved(toolsCallResponse(id, outcome)))
    /\ UNCHANGED <<config, pc, frame, kept, initialized, manager>>

\* the default branch of handleRequest, lines 53-58
HandleUnknownMethod(id) ==
    /\ request' = Some([id |-> id, method |-> "resources/list",
                        params |-> None])
    /\ response' = Some(resolved(createErrorResponse(
            id, METHOD_NOT_FOUND, "Unknown method")))
    /\ UNCHANGED <<config, pc, frame, result, kept, initialized, manager>>

\* handleRequest, lines 44-67, on the requests a client sends, between
\* which the configuration may be initialized
NextServer ==
    \/ /\ \E file \in ConfigFiles : Initialize(file)
       /\ UNCHANGED <<kept, serverVars>>
    \/ /\ \E id \in RequestIds : HandleInitialize(id)
       /\ UNCHANGED transport
    \/ /\ \E id \in RequestIds : HandleToolsList(id)
       /\ UNCHANGED transport
    \/ /\ \E id \in RequestIds, params \in ParamsSet :
              HandleToolsCall(id, params)
       /\ UNCHANGED transport
    \/ /\ \E id \in RequestIds : HandleUnknownMethod(id)
       /\ UNCHANGED transport

SpecServer == Init /\ [][NextServer]_vars

---------------------------------------------------------------------------
(* StdioTransport                                                          *)
(*                                                                         *)
(* The input is text in pieces: a newline, a blank, a brace standing for   *)
(* text that is no JSON, or the whole JSON text of a request.  The lines   *)
(* received are numbered in the order of their arrival, and what is        *)
(* written to the output carries the number of the line it answers.        *)

PARSE_ERROR == -32700

LF == [ch |-> "\n", req |-> None]

Blank == [ch |-> " ", req |-> None]

Brace == [ch |-> "{", req |-> None]

Json(text) == [ch |-> "json", req |-> Some(text)]

ListLine == Json([id |-> 1, method |-> "tools/list", params |-> None])

InitLine == Json([id |-> 2, method |-> "initialize", params |-> None])

CallLine == Json([id |-> 1, method |-> "tools/call", params |-> None])

\* the chunks the input stream delivers: whole lines, one or two at a time,
\* blank and broken lines, and a line cut in two
ChunkSet ==
    {<<ListLine, LF>>, <<InitLine, LF>>, <<CallLine, LF>>,
     <<ListLine, LF, InitLine, LF>>, <<InitLine, LF, ListLine, LF>>,
     <<Brace, LF, ListLine, LF>>, <<Blank, LF>>, <<Blank, InitLine>>, <<LF>>}

\* how many data events the input stream emits
MaxChunks == 3

\* text.split('\n')
RECURSIVE split(_)
split(text) ==
    IF \A i \in 1..Len(text) : text[i] # LF THEN <<text>>
    ELSE LET i == CHOOSE k \in 1..Len(text) :
                    text[k] = LF /\ \A j \in 1..(k - 1) : text[j] # LF
         IN  <<SubSeq(text, 1, i - 1)>> \o split(SubSeq(text, i + 1, Len(text)))

\* line.trim()
trim(line) == SelectSeq(line, LAMBDA c : c # Blank)

\* JSON.parse(line): the request, or nothing where it throws
JSONparse(line) ==
    IF Len(trim(line)) = 1 THEN trim(line)[1].req ELSE None

\* the response of the catch, lines 75-83; its id, null, is 0 here, which
\* no request carries
invalidJson ==
    [jsonrpc |-> "2.0", id |-> 0, result |-> None,
     error |-> Some([code |-> PARSE_ERROR, message |-> "Invalid JSON"])]

\* the loop of processBuffer, lines 68-86, from one line up to its next
\* await: the lines that do not parse are answered on the spot, the first
\* that parses is handed to the server
RECURSIVE advance(_, _)
advance(lines, output) ==
    IF lines = <<>> THEN [output |-> output, call |-> None, rest |-> <<>>]
    ELSE IF trim(Head(lines).text) = <<>>
    THEN advance(Tail(lines), output)
    ELSE IF JSONparse(Head(lines).text) = None
    THEN advance(Tail(lines),
                 Append(output, [line |-> Head(lines).no,
                                 body |-> invalidJson]))
    ELSE [output |-> output, call |-> Some(Head(lines)), rest |-> Tail(lines)]

\* the lines of a split, each non-blank one with its number of arrival
numbered(lines, received) ==
    [i \in 1..Len(lines) |->
        [no |-> received
                + Cardinality({j \in 1..i : trim(lines[j]) # <<>>}),
         text |-> lines[i]]]

\* this.options.server.handleRequest(request), lines 44-67
HandleRequest(req) ==
    \/ req.method = "initialize" /\ HandleInitialize(req.id)
    \/ req.method = "tools/list" /\ HandleToolsList(req.id)
    \/ req.method = "tools/call" /\ HandleToolsCall(req.id, req.params)
    \/ /\ req.method \notin {"initialize", "tools/list", "tools/call"}
       /\ HandleUnknownMethod(req.id)

\* the invocation of processBuffer reaches an await, or its end
Suspend(a, tasks, others) ==
    IF a.call = None
    THEN /\ transport' = [others EXCEPT !.tasks = tasks, !.output = a.output]
         /\ UNCHANGED <<config, pc, frame, result, kept, initialized,
                        request, response, manager>>
    ELSE /\ HandleRequest(Val(JSONparse(Val(a.call).text)))
         /\ transport' =
              [others EXCEPT
                 !.tasks = Append(tasks, [awaiting |-> Val(a.call).no,
                                          promise |-> Val(response'),
                                          rest |-> a.rest]),
                 !.output = a.output]

\* input.on('data'), lines 45-48, and processBuffer up to its first await
Data(chunk) ==
    /\ transport.chunks < MaxChunks
    /\ LET lines    == split(transport.buffer \o chunk)
           complete == SubSeq(lines, 1, Len(lines) - 1)
           nonblank == Cardinality({j \in 1..Len(complete) :
                                       trim(complete[j]) # <<>>})
       IN  Suspend(advance(numbered(complete, transport.received),
                           transport.output),
                   transport.tasks,
                   [transport EXCEPT
                      !.buffer = lines[Len(lines)],
                      !.received = @ + nonblank,
                      !.chunks = @ + 1])

\* the invocation of processBuffer that awaits tasks[i] goes on: lines
\* 73-83, then the loop up to the next await.  A rejected promise throws
\* into the catch.
Resume(i) ==
    LET t     == transport.tasks[i]
        sent  == Append(transport.output,
                        [line |-> t.awaiting,
                         body |-> IF t.promise.settled = "resolved"
                                  THEN t.promise.body ELSE invalidJson])
        tasks == SubSeq(transport.tasks, 1, i - 1)
                 \o SubSeq(transport.tasks, i + 1, Len(transport.tasks))
    IN  Suspend(advance(t.rest, sent), tasks, transport)

\* the data events, and the continuations of the invocations that await,
\* in any order
NextTransport ==
    \/ \E chunk \in ChunkSet : Data(chunk)
    \/ \E i \in 1..Len(transport.tasks) : Resume(i)

SpecTransport == Init /\ [][NextTransport]_vars

---------------------------------------------------------------------------
(* SteelmanTool and StrawmanTool                                           *)
(*                                                                         *)
(* Scores are in tenths (0.5 is 5); a list is kept as its length, or as    *)
(* the set of its members where duplicates are removed; of a claim's text  *)
(* the model keeps what the code tests in it.                              *)

TENTH == 10

MaxPremises == 5

MaxObjections == 6

MaxWeakPremises == 10

\* Math.round on tenths: the nearest integer, a half going up
MathRound(t) == ((t + 5) \div TENTH) * TENTH

\* the arguments of SteelmanTool.execute: the numbers of strongestPremises
\* and anticipatedObjections, whether one objection has severity high,
\* whether a context is given, whether the claim says always or never
SteelmanArgs ==
    {a \in [tool : {"argument.steelman"}, premises : 0..MaxPremises,
            objections : 0..MaxObjections, high : BOOLEAN,
            context : BOOLEAN, absolute : BOOLEAN] :
        a.high => a.objections > 0}

\* enhancePremises, lines 278-298: the number of premises returned
enhancePremises(n, context) ==
    (IF n = 0 THEN 1 ELSE n) + (IF context THEN 1 ELSE 0)

\* identifyResidualRisks, lines 322-343: the number of risks
identifyResidualRisks(premises, high, absolute) ==
      (IF premises < 3 THEN 1 ELSE 0)
    + (IF high THEN 1 ELSE 0)
    + (IF absolute THEN 1 ELSE 0)

\* SteelmanTool.calculateConfidence, lines 345-364; addressObjections gives
\* every objection a response, so all of them count as addressed
steelmanConfidence(premises, objections, risks) ==
    LET score == Min(premises * 5, 20) + Min(objections * 3, 15) - risks * 3
    IN  Max(0, Min(5 * TENTH, MathRound(score)))

\* SteelmanTool.execute, lines 216-251
steelman(a) ==
    LET premises == enhancePremises(a.premises, a.context)
        risks    == identifyResidualRisks(premises, a.high, a.absolute)
    IN  [kind |-> "result", tool |-> a.tool, premises |-> premises,
         addressedObjections |-> a.objections, residualRisks |-> risks,
         confidence |-> steelmanConfidence(premises, a.objections, risks)]

Distortions ==
    {"exaggeration", "false_dichotomy", "context_stripping", "quote_mining"}

Fallacies == {"ad_hominem", "strawman", "hasty_generalization"}

\* the arguments of StrawmanTool.execute: the distortions and fallacies
\* given, the number of weakPremises, and what the tests on the texts of the
\* original and the distorted claim detect
StrawmanArgs ==
    [tool : {"argument.strawman"},
     distortions : SUBSET Distortions,
     detectedDistortions :
        SUBSET {"exaggeration", "false_dichotomy", "context_stripping"},
     fallacies : SUBSET Fallacies,
     detectedFallacies :
        SUBSET {"strawman", "false_dichotomy", "hasty_generalization"},
     weakPremises : 0..MaxWeakPremises]

\* the cap at 5 left out
strawmanConfidence_uncapped(distortions, fallacies, weakPremises) ==
    MathRound(distortions * 5 + fallacies * 3 + weakPremises * 2)

\* StrawmanTool.calculateConfidence, lines 718-732
strawmanConfidence(distortions, fallacies, weakPremises) ==
    Min(5 * TENTH,
        MathRound(distortions * 5 + fallacies * 3 + weakPremises * 2))

\* StrawmanTool.execute, lines 542-584: identifyDistortions and
\* identifyFallacies return the given and the detected members without
\* duplicates, generateWeakPremises adds two premises
strawman(a) ==
    LET identifiedDistortions == a.distortions \cup a.detectedDistortions
        identifiedFallacies   == a.fallacies \cup a.detectedFallacies
        weakPremises          == a.weakPremises + 2
    IN  [kind |-> "result", tool |-> a.tool,
         identifiedDistortions |-> identifiedDistortions,
         identifiedFallacies |-> identifiedFallacies,
         weakPremises |-> weakPremises,
         confidence |-> strawmanConfidence(Cardinality(identifiedDistortions),
                                           Cardinality(identifiedFallacies),
                                           weakPremises)]

\* await steelmanTool.execute(args)
SteelmanExecute(a) ==
    /\ pc = "idle"
    /\ frame' = a
    /\ result' = Some(steelman(a))
    /\ pc' = "done"
    /\ UNCHANGED <<config, kept, otherVars>>

\* await strawmanTool.execute(args)
StrawmanExecute(a) ==
    /\ pc = "idle"
    /\ frame' = a
    /\ result' = Some(strawman(a))
    /\ pc' = "done"
    /\ UNCHANGED <<config, kept, otherVars>>

\* the two tools called one call after the other
NextArgumentation ==
    \/ pc = "idle" /\ \E a \in SteelmanArgs : SteelmanExecute(a)
    \/ pc = "idle" /\ \E a \in StrawmanArgs : StrawmanExecute(a)
    \/ Return /\ UNCHANGED <<kept, otherVars>>

SpecArgumentation == Init /\ [][NextArgumentation]_vars

---------------------------------------------------------------------------
(* Properties                                                              *)

\* the call has settled with advice / with an error
Advised == pc = "done" /\ Val(result).kind = "advice"

Failed == pc = "done" /\ Val(result).kind = "error"

FailedWith(message) == pc = "done" /\ result = Some(thrown(message))

\* the preconditions other than the one on tanClamp hold
WeightAndPhaseValid ==
    Abs(frame.args.cosine) <= SCALE /\ Abs(frame.args.phi) < PiHalf

\* C1: whenever execute computes a decision, it is abstain exactly when the
\* confidence, the larger of pPositive and pNegative, is below the threshold
\* the call uses, and otherwise positive exactly when pPositive >= 0.5 and
\* negative exactly when pPositive < 0.5.
Thm_C1_DecisionRule ==
    Advised =>
        LET r == Val(result)
            t == Val(frame.locals.abstainThreshold)
        IN  /\ r.confidence = Max(r.pPositive, r.pNegative)
            /\ (r.decision = "abstain") <=> (r.confidence < t)
            /\ r.confidence >= t =>
                /\ (r.decision = "positive") <=> (r.pPositive >= Half)
                /\ (r.decision = "negative") <=> (r.pPositive < Half)

\* a probabilistic call abstains below the threshold 0.6 its caller gave
Wit_C1_AbstainBelowThreshold ==
    /\ Advised
    /\ frame.args.mode = "probabilistic"
    /\ Opt(frame.args.scoring, "abstainThreshold") = Some(600)
    /\ Val(result).confidence < 600
    /\ Val(result).decision = "abstain"

\* C2: a call that supplies tanClamp <= 0, zero included, and breaks no
\* earlier precondition fails with 'tanClamp must be positive'.
Cex_C2_NonPositiveClampRejected ==
    (/\ pc = "done"
     /\ WeightAndPhaseValid
     /\ frame.args.tanClamp # None
     /\ Val(frame.args.tanClamp) <= 0) => FailedWith(ClampError)

\* C3: a call whose abstainThreshold lies outside [0, 1] and that breaks no
\* other precondition fails, and returns no advice.
Cex_C3_ThresholdOutsideUnitRejected ==
    (/\ pc = "done"
     /\ validateInputs(frame.args) = None
     /\ Opt(frame.args.scoring, "abstainThreshold") # None
     /\ \/ Val(Opt(frame.args.scoring, "abstainThreshold")) < 0
        \/ Val(Opt(frame.args.scoring, "abstainThreshold")) > SCALE) => Failed

\* C4: a settled call has failed with 'Cosine weight must be in range
\* [-1, 1]' exactly when |cosine| > 1.
Thm_C4_CosineRange ==
    pc = "done" =>
        ((Abs(frame.args.cosine) > SCALE) <=> FailedWith(CosineError))

\* cosine = -1.5 is rejected with the weight error
Wit_C4_NegativeCosineRejected ==
    frame # NoFrame /\ frame.args.cosine = -1500 /\ FailedWith(CosineError)

\* C5 as stated: every call with |phi| >= pi/2 fails with the phase error.
Cex_C5_PhaseErrorAlways ==
    (pc = "done" /\ Abs(frame.args.phi) >= PiHalf) => FailedWith(PhiError)

\* C5: every call with |phi| >= pi/2, the boundary included, fails: with the
\* phase error when |cosine| <= 1 and with the weight error, checked first,
\* otherwise; at no point of such a call is the demon signal, and so
\* tan(phi), evaluated.
Thm_C5_SingularPhaseRejected ==
    (frame # NoFrame /\ Abs(frame.args.phi) >= PiHalf) =>
        /\ frame.locals.tanVal = None
        /\ pc # "compute"
        /\ pc = "done" =>
            IF Abs(frame.args.cosine) <= SCALE
            THEN FailedWith(PhiError) ELSE FailedWith(CosineError)

\* phi = -pi/2 with a valid weight is rejected with the phase error
Wit_C5_BoundaryRejected ==
    /\ frame # NoFrame
    /\ frame.args.phi = -PiHalf
    /\ Abs(frame.args.cosine) <= SCALE
    /\ FailedWith(PhiError)

Cex_C7_ThresholdResolution ==
    (Advised /\ frame.args.mode = "probabilistic") =>
        LET own == Opt(frame.args.scoring, "abstainThreshold")
            cfg == getMindBalanceConfig(config).abstainThreshold
        IN  Val(frame.locals.abstainThreshold) =
                IF own # None THEN Val(own)
                ELSE IF cfg # None THEN Val(cfg)
                ELSE DefaultThreshold

\* C7: in probabilistic mode the threshold is the caller's
\* scoring.abstainThreshold when present (0 included); otherwise, when the
\* caller gives no scoring object and the configuration's mindBalance.scoring
\* carries an abstainThreshold, that one; otherwise the configuration's
\* mindBalance.abstainThreshold when present, otherwise 0.70.  The decision
\* is taken against that threshold.
Thm_C7_ThresholdResolution ==
    (Advised /\ frame.args.mode = "probabilistic") =>
        LET own == Opt(frame.args.scoring, "abstainThreshold")
            mb  == getMindBalanceConfig(config)
            sc  == Opt(mb.scoring, "abstainThreshold")
            t   == IF own # None THEN Val(own)
                   ELSE IF frame.args.scoring = None /\ sc # None THEN Val(sc)
                   ELSE IF mb.abstainThreshold # None
                        THEN Val(mb.abstainThreshold)
                   ELSE DefaultThreshold
        IN  /\ Val(frame.locals.abstainThreshold) = t
            /\ (Val(result).decision = "abstain") <=> (Val(result).confidence < t)

\* a caller's threshold of 0 is the one used: the call never abstains
Wit_C7_ZeroThresholdUsed ==
    /\ Advised
    /\ frame.args.mode = "probabilistic"
    /\ Opt(frame.args.scoring, "abstainThreshold") = Some(0)
    /\ getMindBalanceConfig(config).abstainThreshold = Some(900)
    /\ Val(frame.locals.abstainThreshold) = 0
    /\ Val(result).decision # "abstain"

\* the thresholds a second call is given
AltThresholds == {-100, 0, 550, 600, 700, 732, 900, 1000, 1500}

\* the arguments of the settled call with the threshold t in their scoring
WithThreshold(t) ==
    [frame.args EXCEPT !.scoring =
        Some([(IF frame.args.scoring # None THEN Val(frame.args.scoring)
               ELSE EmptyScoring) EXCEPT !.abstainThreshold = Some(t)])]

\* C8: of two calls that differ only in abstainThreshold, t1 <= t2, the one
\* with t2 abstains if the one with t1 does, and a positive or negative
\* decision at t2 is the decision at t1.
Thm_C8_AbstentionMonotone ==
    (Advised /\ Opt(frame.args.scoring, "abstainThreshold") # None) =>
        \A t2 \in AltThresholds :
            LET t1    == Val(Opt(frame.args.scoring, "abstainThreshold"))
                first == Val(result)
                other == execute(WithThreshold(t2), config)
            IN  t1 <= t2 =>
                /\ other.kind = "advice"
                /\ first.decision = "abstain" => other.decision = "abstain"
                /\ other.decision # "abstain" =>
                        other.decision = first.decision

\* a call decided at threshold 0 that abstains once the threshold is 0.6
Wit_C8_RaisedThresholdAbstains ==
    /\ Advised
    /\ Opt(frame.args.scoring, "abstainThreshold") = Some(0)
    /\ Val(result).decision # "abstain"
    /\ execute(WithThreshold(600), config).decision = "abstain"

\* C9: in every mode and for both values of normalize the probabilities
\* returned lie in [0, 1] and sum to 1, and the confidence is their maximum
\* and lies in [0.5, 1].
Thm_C9_Range ==
    Advised =>
        LET r == Val(result) IN
        /\ r.pPositive >= 0 /\ r.pPositive <= SCALE
        /\ r.pNegative >= 0 /\ r.pNegative <= SCALE
        /\ r.pPositive + r.pNegative = SCALE
        /\ r.confidence = Max(r.pPositive, r.pNegative)
        /\ r.confidence >= Half /\ r.confidence <= SCALE

\* an unnormalised call outside probabilistic mode with lopsided signals
Wit_C9_LopsidedUnnormalised ==
    /\ Advised
    /\ ~frame.finalNormalize
    /\ frame.args.mode = "blend"
    /\ Val(result).pNegative > 900

\* C10: for an effective clamp c > 0 the clamped tangent has magnitude
\* min(|tan(phi)|, c), at most c, and the sign of tan(phi), zero exactly when
\* tan(phi) is; so the demon signal is at most c * |tangent| in magnitude.
Thm_C10_Clamp ==
    (Advised /\ frame.finalTanClamp > 0) =>
        LET x == MathTan(frame.args.phi)
            c == frame.finalTanClamp
            y == clampMag(x, c)
        IN  /\ Abs(y) = Min(Abs(x), c)
            /\ Abs(y) <= c
            /\ Sign(y) = Sign(x)
            /\ Val(result).demonSignal = Mul(y, frame.args.tangent)
            /\ Abs(Val(result).demonSignal) <= Mul(c, Abs(frame.args.tangent))

\* tan(-1.4) = -5.798 is cut to -3.0 by the default clamp
Wit_C10_NegativeTangentClamped ==
    /\ Advised
    /\ frame.args.phi = -1400
    /\ frame.finalTanClamp = DefaultTanClamp
    /\ frame.args.tangent = 500
    /\ Val(result).demonSignal = -1500

\* the scoring object in force for the settled call: the caller's when the
\* caller gives one, otherwise the stored configuration's
ScoringInForce ==
    IF frame.args.scoring # None THEN frame.args.scoring
    ELSE getMindBalanceConfig(config).scoring

\* the rules requested by the object in force, brier and log when it names
\* none
RulesRequested ==
    IF ScoringInForce = None \/ Val(ScoringInForce).rules = None
    THEN {"brier", "log"}
    ELSE {Val(Val(ScoringInForce).rules)[i] :
            i \in 1..Len(Val(Val(ScoringInForce).rules))}

\* its abstention score, 0.0 when it carries none
AbstentionScoreInForce ==
    IF ScoringInForce = None \/ Val(ScoringInForce).abstentionScore = None
    THEN 0
    ELSE Val(Val(ScoringInForce).abstentionScore)

Thm_C12_ScoresPresence ==
    Advised =>
        LET scores == Val(result).scores IN
        /\ (scores # None) <=> (RulesRequested \cap {"brier", "log"} # {})
        /\ scores # None =>
              \A rule \in {"brier", "log"} :
                  (Val(scores)[rule] # None) <=> (rule \in RulesRequested)
        /\ Opt(frame.args.scoring, "rules") = Some(<<>>) => scores = None

\* a call with scoring { rules: [] } returns advice without scores
Wit_C12_EmptyRuleList ==
    /\ Advised
    /\ Opt(frame.args.scoring, "rules") = Some(<<>>)
    /\ Val(result).scores = None

Thm_C14_DefaultResolution ==
    Advised =>
        LET a     == frame.args
            mb    == getMindBalanceConfig(config)
            r     == Val(result)
            clamp == IF a.tanClamp # None THEN Val(a.tanClamp)
                     ELSE IF mb.tanClamp # None THEN Val(mb.tanClamp)
                     ELSE DefaultTanClamp
            norm  == IF a.normalize # None THEN Val(a.normalize)
                     ELSE IF mb.normalize # None THEN Val(mb.normalize)
                     ELSE TRUE
        IN  /\ r.metadata.tanClamp = clamp
            /\ r.metadata.normalized = norm
            /\ r.demonSignal =
                    Mul(clampMag(MathTan(a.phi), r.metadata.tanClamp), a.tangent)
            /\ r.pPositive =
                    logistic(IF r.metadata.normalized
                             THEN zBlend(r.angelSignal, r.demonSignal)
                             ELSE r.angelSignal - r.demonSignal)
            /\ r.pNegative = SCALE - r.pPositive

\* under a configuration with tanClamp 1.0 and normalize false a caller's
\* tanClamp 0.5 and normalize true are the ones echoed
Wit_C14_CallerOverridesConfig ==
    /\ Advised
    /\ getMindBalanceConfig(config).tanClamp = Some(1000)
    /\ getMindBalanceConfig(config).normalize = Some(FALSE)
    /\ frame.args.tanClamp = Some(500)
    /\ frame.args.normalize = Some(TRUE)
    /\ Val(result).metadata.tanClamp = 500
    /\ Val(result).metadata.normalized

\* C15: when the caller gives a scoring object, each of rules and
\* abstentionScore that the object omits is taken from the stored
\* configuration's scoring (brier and log, and 0.0, when that has none too):
\* scores has the entries of those rules and, on abstention, that score.
Cex_C15_FieldwiseDefaults ==
    (Advised /\ frame.args.scoring # None) =>
        LET own    == Val(frame.args.scoring)
            cfg    == getMindBalanceConfig(config).scoring
            rules  == IF own.rules # None THEN Val(own.rules)
                      ELSE IF Opt(cfg, "rules") # None
                           THEN Val(Opt(cfg, "rules"))
                      ELSE <<"brier", "log">>
            score  == IF Val(result).decision # "abstain" THEN 0
                      ELSE IF own.abstentionScore # None
                           THEN Val(own.abstentionScore)
                      ELSE IF Opt(cfg, "abstentionScore") # None
                           THEN Val(Opt(cfg, "abstentionScore"))
                      ELSE 0
            expect == [brier |-> IF Includes(rules, "brier") THEN Some(score)
                                 ELSE None,
                       log   |-> IF Includes(rules, "log") THEN Some(score)
                                 ELSE None]
        IN  Val(result).scores =
                IF expect.brier # None \/ expect.log # None
                THEN Some(expect) ELSE None

Thm_C17_WeightedTie ==
    (Advised /\ frame.args.cosine = 0 /\ frame.args.tangent = 0) =>
        LET r == Val(result) IN
        /\ r.angelSignal = 0
        /\ r.demonSignal = 0
        /\ frame.locals.raw = Some(0)
        /\ r.pPositive = Half
        /\ r.pNegative = Half
        /\ r.confidence = Half
        /\ Val(frame.locals.abstainThreshold) > Half => r.decision = "abstain"
        /\ Val(frame.locals.abstainThreshold) <= Half => r.decision = "positive"

\* a normalised probabilistic tie at theta = pi, phi = -1.4 abstains under
\* the default threshold
Wit_C17_NormalisedTie ==
    /\ Advised
    /\ frame.args.cosine = 0
    /\ frame.args.tangent = 0
    /\ frame.args.theta = 3142
    /\ frame.args.phi = -1400
    /\ frame.args.mode = "probabilistic"
    /\ frame.finalNormalize
    /\ Val(frame.locals.abstainThreshold) = DefaultThreshold
    /\ frame.locals.raw = Some(0)
    /\ Val(result).decision = "abstain"

\* the factors both signals are multiplied by
MaxScale == 3

\* C18: for the signals a and b of a settled call, not both zero, and every
\* factor k in 2..MaxScale, zBlend(k*a, k*b) = zBlend(a, b); when the call
\* normalises, its raw is zBlend(a, b) and the probability and the decision
\* computed from the scaled signals are the call's own; when it does not, its
\* raw is a - b, and the scaled signals give k times that.
Thm_C18_ScaleInvariance ==
    Advised =>
        LET r == Val(result)
            a == r.angelSignal
            b == r.demonSignal
            t == Val(frame.locals.abstainThreshold)
        IN  \A k \in 2..MaxScale :
            /\ (a # 0 \/ b # 0) => zBlend(k * a, k * b) = zBlend(a, b)
            /\ (frame.finalNormalize /\ (a # 0 \/ b # 0)) =>
                  LET pK == logistic(zBlend(k * a, k * b)) IN
                  /\ Val(frame.locals.raw) = zBlend(a, b)
                  /\ pK = r.pPositive
                  /\ decide(Max(pK, SCALE - pK), pK, t) = r.decision
            /\ ~frame.finalNormalize =>
                  /\ Val(frame.locals.raw) = a - b
                  /\ k * a - k * b = k * Val(frame.locals.raw)

\* signals 0.5 and 1.5 blend to -0.5, and so do 1.5 and 4.5
Wit_C18_TripledSignals ==
    /\ Advised
    /\ frame.finalNormalize
    /\ Val(result).angelSignal = 500
    /\ Val(result).demonSignal = 1500
    /\ frame.locals.raw = Some(-500)
    /\ zBlend(3 * 500, 3 * 1500) = -500

\* how many of the preconditions on cosine, phi and tanClamp the settled
\* call's arguments violate
ViolationCount ==
    LET a == frame.args IN
      (IF Abs(a.cosine) > SCALE THEN 1 ELSE 0)
    + (IF Abs(a.phi) >= PiHalf THEN 1 ELSE 0)
    + (IF a.tanClamp # None /\ Val(a.tanClamp) <= 0 THEN 1 ELSE 0)

\* C20: a call whose arguments violate two or three of the preconditions on
\* cosine, phi and tanClamp fails with one error, a message and nothing
\* else: the weight error when the cosine is out of range, the phase error
\* otherwise; the error is a function of the arguments.
Thm_C20_FirstViolation ==
    (pc = "done" /\ ViolationCount >= 2) =>
        /\ Failed
        /\ DOMAIN Val(result) = {"kind", "message"}
        /\ Val(result).message =
                IF Abs(frame.args.cosine) > SCALE THEN CosineError
                ELSE PhiError

\* cosine -1.5, phi at pi/2 and tanClamp -1 together: the weight error
Wit_C20_AllThreeViolated ==
    /\ pc = "done"
    /\ frame.args.cosine = -1500
    /\ frame.args.phi = PiHalf
    /\ frame.args.tanClamp = Some(-1000)
    /\ ViolationCount = 3
    /\ FailedWith(CosineError)

\* the request last handled is a tools/call for a registered tool
RegisteredToolCalled ==
    /\ request # None
    /\ Val(request).method = "tools/call"
    /\ Val(request).params # None
    /\ Val(Val(request).params).name \in tools

\* C19: the response to a tools/call for a registered tool carries the id
\* of the request; it is an error response, with code TOOL_EXECUTION_ERROR
\* and the message thrown, exactly when the tool's call threw, and otherwise
\* a success response whose result is the tool's output with contentType
\* application/json.
Thm_C19_ToolsCallResponse ==
    RegisteredToolCalled =>
        /\ response # None /\ result # None
        /\ Val(response).settled = "resolved"
        /\ LET body    == Val(response).body
               outcome == Val(result)
           IN  /\ body.id = Val(request).id
               /\ (body.error # None) <=> (outcome.kind = "error")
               /\ (body.result # None) <=> (outcome.kind # "error")
               /\ outcome.kind = "error" =>
                     body.error = Some([code |-> TOOL_EXECUTION_ERROR,
                                        message |-> outcome.message])
               /\ outcome.kind # "error" =>
                     body.result = Some([contentType |-> "application/json",
                                         content |-> outcome])

\* request 2 calls mind.balance with cosine -1.5 and is answered with the
\* tool execution error that carries the weight message
Wit_C19_ValidationErrorMapped ==
    /\ RegisteredToolCalled
    /\ Val(request).id = 2
    /\ Val(Val(request).params).name = "mind.balance"
    /\ result = Some(thrown(CosineError))
    /\ response = Some(resolved(createErrorResponse(
            2, TOOL_EXECUTION_ERROR, CosineError)))

\* C21: the confidence SteelmanTool.execute and StrawmanTool.execute return
\* is a whole number from 0 to 5, for every number of premises, objections,
\* distortions, fallacies and weak premises.
Thm_C21_ConfidenceRange ==
    (pc = "done" /\ Val(result).kind = "result") =>
        /\ Val(result).confidence % TENTH = 0
        /\ Val(result).confidence >= 0
        /\ Val(result).confidence <= 5 * TENTH

\* a strawman with four distortions, four fallacies and twelve weak
\* premises scores 5.6 and is given confidence 5
Wit_C21_StrawmanCapped ==
    /\ pc = "done"
    /\ Val(result).kind = "result"
    /\ Val(result).tool = "argument.strawman"
    /\ Cardinality(Val(result).identifiedDistortions) = 4
    /\ Cardinality(Val(result).identifiedFallacies) = 4
    /\ Val(result).weakPremises = 12
    /\ Val(result).confidence = 5 * TENTH

\* the bucket the cutoffs 0.7, 0.4 and 0.1 give a magnitude
BucketOf(m) ==
    IF m > 700 THEN "strong"
    ELSE IF m > 400 /\ m <= 700 THEN "moderate"
    ELSE IF m > 100 /\ m <= 400 THEN "mild"
    ELSE "neutral"

\* C22: in the rationale the angel and the demon signal alike are called
\* strong iff |signal| > 0.7, moderate iff 0.4 < |signal| <= 0.7, mild iff
\* 0.1 < |signal| <= 0.4 and neutral (subdued) iff |signal| <= 0.1, a
\* magnitude of exactly 0.7, 0.4 or 0.1 falling in the lower bucket; the
\* direction named is positive iff the signal is > 0.
Thm_C22_RationaleBuckets ==
    Advised =>
        LET r == Val(result) IN
        /\ r.rationale.angel.bucket = BucketOf(Abs(r.angelSignal))
        /\ r.rationale.demon.bucket = BucketOf(Abs(r.demonSignal))
        /\ (r.rationale.angel.bucket = "strong") <=> (Abs(r.angelSignal) > 700)
        /\ (r.rationale.demon.bucket = "neutral") <=> (Abs(r.demonSignal) <= 100)
        /\ (r.rationale.angel.direction = "positive") <=> (r.angelSignal > 0)
        /\ (r.rationale.demon.direction = "positive") <=> (r.demonSignal > 0)

\* an angel signal of exactly -0.7 is moderate and negative, a demon signal
\* of exactly 0.1 subdued
Wit_C22_OnTheCutoffs ==
    /\ Advised
    /\ Val(result).angelSignal = -700
    /\ Val(result).demonSignal = 100
    /\ Val(result).rationale.angel.bucket = "moderate"
    /\ Val(result).rationale.angel.direction = "negative"
    /\ Val(result).rationale.demon.bucket = "neutral"

\* C23: in blend mode the combined score reported for the call is the mean
\* of the two signals after normalisation: with normalize = true it is
\* computed from the normalised signals (up to a rounding step of the last
\* digit), not from the raw angelSignal and demonSignal.  The stored
\* generateRationale takes the mean of the raw signals whatever normalize is.
Cex_C23_BlendOfNormalised ==
    (/\ Advised
     /\ Val(result).mode = "blend"
     /\ Val(result).metadata.normalized)
    => LET r == Val(result)
           shown == r.rationale.analysis.shown[1]
       IN  Abs(shown - legacyBlendedScore(r.angelSignal, r.demonSignal, TRUE))
               <= 1

\* C24: for every request, whatever its method, with or without params, to
\* a known or an unknown tool, handleRequest resolves to one JSON-RPC
\* response that has the id of the request and carries either a result or
\* an error; its promise is never rejected.  A tools/call request without
\* params is answered by a rejection.
Cex_C24_AlwaysResolves ==
    response # None =>
        /\ Val(response).settled = "resolved"
        /\ Val(response).body.id = Val(request).id
        /\ (Val(response).body.result # None)
               # (Val(response).body.error # None)

\* the numbers of the lines answered so far, in the order of the answers
Answered == [i \in 1..Len(transport.output) |-> transport.output[i].line]

\* C25: the transport writes one response for every complete non-blank
\* line of the input, and writes the responses in the order in which the
\* lines were received, also when a chunk arrives while the handling of a
\* request of an earlier chunk is still awaited.  The code starts a second
\* processBuffer on the new chunk, whose response overtakes those of the
\* lines the first one has not reached yet.
Cex_C25_ResponsesInOrder ==
    /\ \A i \in 1..Len(Answered) : Answered[i] = i
    /\ transport.tasks = <<>> => Len(Answered) = transport.received

\* a request was handled in the step
Handled == <<request, response, initialized>>' # <<request, response, initialized>>

\* C26: among the requests to one server, only an initialize that finds
\* initialized false gets a success result, and it sets initialized, which
\* never returns to false; every later initialize gets the error response
\* INTERNAL_ERROR 'Server already initialized' with its own id.  tools/list
\* and tools/call get the same response whether or not initialize happened.
Thm_C26_InitializeOnce ==
    [][/\ initialized => initialized'
       /\ (Handled /\ Val(request').method = "initialize") =>
            /\ initialized'
            /\ Val(response') =
                 IF initialized
                 THEN resolved(createErrorResponse(
                        Val(request').id, INTERNAL_ERROR,
                        "Server already initialized"))
                 ELSE resolved(successResponse(
                        Val(request').id, [protocolVersion |-> "2024-11-05"]))
       /\ (Handled /\ Val(request').method = "tools/list") =>
            /\ initialized' = initialized
            /\ Val(response') =
                 resolved(successResponse(Val(request').id, [tools |-> tools]))
       /\ (Handled /\ Val(request').method = "tools/call") =>
            /\ initialized' = initialized
            /\ Val(response') =
                 IF Val(request').params = None
                 THEN rejected(DestructureError)
                 ELSE IF Val(Val(request').params).name \notin tools
                 THEN resolved(createErrorResponse(
                        Val(request').id, TOOL_NOT_FOUND, "Tool not found"))
                 ELSE resolved(toolsCallResponse(Val(request').id,
                                                 Val(result')))
      ]_vars

\* a second initialize, with id 2, was refused
Wit_C26_SecondInitializeRefused ==
    /\ initialized
    /\ request # None
    /\ Val(request).method = "initialize"
    /\ Val(request).id = 2
    /\ response = Some(resolved(createErrorResponse(
            2, INTERNAL_ERROR, "Server already initialized")))

\* C27: with normalize = true the raw combination is (a - b) / (|a| + |b|)
\* (0 when both signals are 0) and lies in [-1, 1], so the confidence never
\* exceeds logistic(1), about 0.731, and every normalised call whose
\* effective threshold is above logistic(1) abstains.
Thm_C27_NormalisedBound ==
    (Advised /\ frame.finalNormalize) =>
        LET r   == Val(result)
            a   == r.angelSignal
            b   == r.demonSignal
            raw == Val(frame.locals.raw)
        IN  /\ raw = IF Abs(a) + Abs(b) = 0 THEN 0
                     ELSE RDiv((a - b) * SCALE, Abs(a) + Abs(b))
            /\ raw >= -SCALE /\ raw <= SCALE
            /\ r.confidence <= logistic(SCALE)
            /\ Val(frame.locals.abstainThreshold) > logistic(SCALE) =>
                    r.decision = "abstain"

\* signals of opposite sign give raw = 1 and the largest confidence there
\* is; under the threshold 0.9 of the configuration the probabilistic call
\* abstains
Wit_C27_LargestConfidenceAbstains ==
    /\ Advised
    /\ frame.finalNormalize
    /\ frame.args.mode = "probabilistic"
    /\ Val(result).angelSignal > 0 /\ Val(result).demonSignal < 0
    /\ Val(frame.locals.raw) = SCALE
    /\ Val(result).confidence = logistic(SCALE)
    /\ Val(frame.locals.abstainThreshold) = 900
    /\ Val(result).decision = "abstain"

Loads(file) == file.exists /\ file.parses /\ schemaValid(file)

\* the stored configuration is what initialize makes of the file
StoredFrom(file, c, m) ==
    /\ c = deepMerge(DEFAULT_CONFIG, applyEnvironmentOverrides(file))
    /\ m.isInitialized
    /\ m.security = storedKey(file.security)
    /\ m.signature = storedKey(file.signature)

\* C29: an initialize that fails, for a file that is missing, is no JSON or
\* does not pass validation, leaves the stored configuration and
\* isInitialized as they were, and a later execute resolves its defaults
\* from that configuration; the stored configuration is replaced, and
\* isInitialized set, only by an initialize of a file that passed
\* validation.
Thm_C29_FailedInitialize ==
    [][/\ \A file \in ManagerFiles, auditLogging \in BOOLEAN :
            (~Loads(file) /\ InitializeWith(file, auditLogging)) =>
                /\ config' = config
                /\ manager'.isInitialized = manager.isInitialized
                /\ manager'.security = manager.security
                /\ manager'.signature = manager.signature
       /\ (\/ config' # config
           \/ manager'.isInitialized # manager.isInitialized
           \/ manager'.signature # manager.signature
           \/ (manager'.security = None) # (manager.security = None)) =>
            \E file \in ManagerFiles :
                Loads(file) /\ StoredFrom(file, config', manager')
       /\ frame' # NoFrame =>
            frame'.mindBalanceConfig = getMindBalanceConfig(config')
      ]_vars

\* after a successful initialize and then a failed one, both logged, a
\* call resolved the threshold 0.9 of the file loaded first
Wit_C29_DefaultsSurviveFailure ==
    /\ Advised
    /\ manager.auditLogs = <<TRUE, FALSE>>
    /\ manager.isInitialized
    /\ frame.args.scoring = None
    /\ frame.mindBalanceConfig.abstainThreshold = Some(900)
    /\ Val(frame.locals.abstainThreshold) = 900

\* C30: exportConfig, with includeSensitive false or true, leaves the
\* stored configuration as it is: whatever exports went before,
\* exportConfig(true) returns every field of the loaded configuration,
\* security.encryption included.  After an exportConfig(false) the
\* encryption key is gone from the stored configuration.
Cex_C30_ExportKeepsConfig ==
    [][/\ \A includeSensitive \in BOOLEAN :
            ExportConfig(includeSensitive) =>
                /\ config' = config
                /\ manager' = manager
                /\ includeSensitive =>
                        Val(result').config =
                            [mindBalance |-> config.mindBalance,
                             security |-> manager.security,
                             signature |-> manager.signature]
       /\ manager'.isInitialized =>
            \E file \in ManagerFiles :
                Loads(file) /\ StoredFrom(file, config', manager')
      ]_vars

===========================================================================
